---------------------------- MODULE Spec2Model ----------------------------
(***************************************************************************)
(* Study-progress dashboard (streamlit_dashboard/app.py): the weekly plan  *)
(* generator, the difficulty-tier roadmap and the goal-date forecast.      *)
(*                                                                         *)
(* Dates are day numbers relative to the day of the call (today = 0).      *)
(* Ratios that the code computes in floating point are kept as exact       *)
(* fractions and compared by cross-multiplication.                         *)
(***************************************************************************)
EXTENDS Integers, Sequences, FiniteSets, TLC

VARIABLES
    df_master,         \* problem catalog: 問題ID -> [unit, subject, tier]
    df_log,            \* attempt log: sequence of rows [date, pid, miss, mins, secs]
    bd,                \* the log grouped by day: sequence of [sum, count]
    exam_date,         \* st.session_state.exam_date: <<>> (None) or <<day>>
    daily_study_time,  \* st.session_state.daily_study_time (minutes)
    target_rate_user,  \* st.session_state.target_rate_user (percent)
    weekly_plan,       \* what generate_weekly_study_plan returned last
    weak_list,         \* the local weak_list of that call (<<>> when not computed)
    roadmap,           \* what generate_study_roadmap_detailed returned last
    prediction,        \* the forecast card computed last
    df_columns,        \* the columns of df_all, the frame the script hands to the plan
    agg,               \* the per-unit aggregate of the KPI block
    settings_sheet,    \* rows of the sheet User_Settings below its header
    settings_call,     \* the last call of save_user_settings or load_user_settings
    user_sheet,        \* lines of the log sheet of the user, the header first
    sync_call          \* the last call of sync_from_csv

app_vars == <<df_master, df_log, bd, exam_date, daily_study_time, target_rate_user,
              weekly_plan, weak_list, roadmap, prediction, df_columns, agg>>

sheet_vars == <<settings_sheet, settings_call, user_sheet, sync_call>>

vars == <<df_master, df_log, bd, exam_date, daily_study_time, target_rate_user,
          weekly_plan, weak_list, roadmap, prediction, df_columns, agg,
          settings_sheet, settings_call, user_sheet, sync_call>>

----------------------------------------------------------------------------
(* Bounds of the model *)

\* rows of the log in the scheduling runs
MaxLog == 2

\* rows of the log in the ranking runs
MaxRankLog == 3

\* rows of the log in the roadmap runs
MaxRoadmapLog == 5

\* rows of the log in the runs of the whole dashboard
MaxDashLog == 2

\* days of the log in the forecast runs
MaxDays == 4
MaxKpiLog == 3
MaxSheetRows == 2

Problems == {"P1", "P2", "P3"}

Tiers == {"low", "mid", "high"}

\* problems of the roadmap runs; P1 and P4 belong to the same unit
RoadmapProblems == {"P1", "P2", "P3", "P4"}

UnitOfProblem(p) ==
    CASE p = "P1" -> "A" [] p = "P2" -> "B" [] p = "P3" -> "C" [] p = "P4" -> "A"

SubjectOfProblem(p) ==
    CASE p = "P1" -> "S1" [] p = "P2" -> "S1" [] p = "P3" -> "S2" [] p = "P4" -> "S1"

ProblemIndex(p) == CASE p = "P1" -> 1 [] p = "P2" -> 2 [] p = "P3" -> 3 [] p = "P4" -> 4

\* the catalog of the scheduling and ranking runs
PlanMaster ==
    [p \in Problems |->
        [unit |-> UnitOfProblem(p), subject |-> SubjectOfProblem(p),
         tier |-> CASE p = "P1" -> "low" [] p = "P2" -> "mid" [] p = "P3" -> "high"]]

PlanProblems == {"P1", "P2"}
PlanLogDates == {-7, -1}
PlanMinutes == {0, 90}

\* the scheduling runs record correct attempts only: every unit has priority
\* 0 and the sort may leave the units in any order (the ranking runs vary
\* the results)
PlanMisses == {0}
PlanExamDates == {<<>>, <<-1>>, <<0>>, <<2>>, <<7>>, <<30>>}

\* a 問題ID that no row of the catalog carries, and the date of its attempts:
\* older than the replayed week and on no review interval of the coming week
UnlistedProblem == "P0"
\* dates of attempts on a problem the catalog lacks: before the range of the
\* plan, and yesterday
UnlistedLogDates == {-20, -1}
PlanDailyLimits == {10, 20, 60}

\* catalogs of the roadmap runs: every tier assignment of the four problems
\* or of P1 and P2 only, the empty catalog, and a catalog without the 難易度
\* column (tier "none" in every row)
MasterOver(dom, tierOf) ==
    [p \in dom |->
        [unit |-> UnitOfProblem(p), subject |-> SubjectOfProblem(p), tier |-> tierOf[p]]]

TierIndex(tier) == CASE tier = "low" -> 1 [] tier = "mid" -> 2 [] tier = "high" -> 3

\* P2 and P3 are alike but for their names, and so are P1 and P4: of the
\* catalogs that differ by swapping the tiers of such a pair, one is kept
RoadmapMasters ==
    {MasterOver(RoadmapProblems, f) :
        f \in {g \in [RoadmapProblems -> Tiers] :
                  /\ TierIndex(g["P2"]) <= TierIndex(g["P3"])
                  /\ TierIndex(g["P1"]) <= TierIndex(g["P4"])}}
    \cup {MasterOver({"P1", "P2"}, f) : f \in [{"P1", "P2"} -> Tiers]}
    \cup {MasterOver({}, <<>>)}
    \cup {MasterOver(RoadmapProblems, [p \in RoadmapProblems |-> "none"])}

\* answer times of the attempts of the KPI runs, in seconds: within the
\* target time and twice the target time
KpiAnswerSecs == {30, 120}

\* what one day adds to the log in the forecast runs: misses and attempts
DayStats ==
    {[sum |-> 0, count |-> 1], [sum |-> 1, count |-> 1],
     [sum |-> 1, count |-> 2], [sum |-> 1, count |-> 5],
     [sum |-> 127, count |-> 256]}

ForecastTargets == {50, 80, 100}

\* the runs of the whole dashboard: the catalog with one problem per tier and
\* a catalog without a problem of the high tier
DashProblems == {"P1", "P2"}
DashLogDates == {-1, 0}
DashExamDates == {<<>>, <<3>>}
DashMasters ==
    {PlanMaster,
     MasterOver(Problems, [p \in Problems |-> IF p = "P1" THEN "low" ELSE "mid"])}

RankLogDates == {0}
RankExamDates == {<<4>>}
RankDailyLimits == {10, 20, 40, 60}

----------------------------------------------------------------------------
(* Helpers *)

Min(a, b) == IF a <= b THEN a ELSE b

Range(s) == {s[i] : i \in DOMAIN s}

\* all orderings of the finite set S
Perms(S) ==
    {s \in [1..Cardinality(S) -> S] : \A i, j \in 1..Cardinality(S) : i # j => s[i] # s[j]}

\* translation of a data text for the session language (default 日本語: the text itself)
dt(text) == text

Today == 0

\* the left join of the log with the catalog on 問題ID: the unit and subject
\* of a row, NaN for a 問題ID the catalog does not have
NaN == "NaN"

UnitOf(row) == IF row.pid \in DOMAIN df_master THEN df_master[row.pid].unit ELSE NaN
SubjectOf(row) == IF row.pid \in DOMAIN df_master THEN df_master[row.pid].subject ELSE NaN

\* df["単元"].unique(): NaN is a value of its own
UniqueUnits(df) == {UnitOf(df[i]) : i \in DOMAIN df}

\* the keys of groupby("単元"): NaN is dropped
UnitsIn(df) == UniqueUnits(df) \ {NaN}

\* the columns of df_all after the script has loaded and merged the log
LogColumns ==
    {"date", "problem_id", "result", "answer_seconds", "miss_cause", "study_minutes",
     "miss", "subject", "unit", "difficulty", "target_seconds", "target_time"}

\* df[df["単元"] == unit]["科目"].iloc[0]
FirstSubject(df, unit, default) ==
    LET idx == {i \in DOMAIN df : UnitOf(df[i]) = unit /\ unit # NaN}
    IN  IF idx = {} THEN default
        ELSE SubjectOf(df[CHOOSE i \in idx : \A j \in idx : i <= j])

----------------------------------------------------------------------------
(* generate_weekly_study_plan: 1. review candidates *)

review_intervals == {1, 3, 7, 14, 30}

studied_on_date(df, past_date) ==
    {UnitOf(df[i]) : i \in {j \in DOMAIN df : df[j].date = past_date}}

review_units(df, target_date) ==
    UNION {studied_on_date(df, target_date - interval) : interval \in review_intervals}

\* list(review_units): the iteration order of a set of str follows the
\* process's string hashing; hash_order is the order it induces on the units
ListOfSet(S, hash_order) == SelectSeq(hash_order, LAMBDA u : u \in S)

ReviewHorizon == 7

review_candidates(df, days_left, hash_order) ==
    [target_date \in {Today + day : day \in 0..(Min(ReviewHorizon, days_left) - 1)} |->
        ListOfSet(review_units(df, target_date), hash_order)]

----------------------------------------------------------------------------
(* generate_weekly_study_plan: 2. weak units *)

MissSum(df, unit) ==
    Cardinality({i \in DOMAIN df : UnitOf(df[i]) = unit /\ df[i].miss = 1})

TrialCount(df, unit) ==
    Cardinality({i \in DOMAIN df : UnitOf(df[i]) = unit})

\* 正答率 = (試行回数 - ミス数) / 試行回数, as numerator over TrialCount
AccuracyNum(df, unit) == TrialCount(df, unit) - MissSum(df, unit)

\* variant: the priority without the factor 試行回数
PriorityNumNoVolume(df, unit) == TrialCount(df, unit) - AccuracyNum(df, unit)

\* 優先度 = (1 - 正答率) * 試行回数, as numerator over TrialCount
PriorityNum(df, unit) ==
    (TrialCount(df, unit) - AccuracyNum(df, unit)) * TrialCount(df, unit)

\* priority of u >= priority of v
PriorityGeq(df, u, v) ==
    PriorityNum(df, u) * TrialCount(df, v) >= PriorityNum(df, v) * TrialCount(df, u)

\* sort_values("優先度", ascending=False)
SortedDescending(df, s) ==
    \A i, j \in DOMAIN s : i < j => PriorityGeq(df, s[i], s[j])

\* the orders sort_values can leave the grouped units in: descending by
\* priority, equal priorities in an order the sort algorithm picks
weak_lists(df) == {s \in Perms(UnitsIn(df)) : SortedDescending(df, s)}

----------------------------------------------------------------------------
(* generate_weekly_study_plan: 3. the plan of one day *)

unit_time_mins == 20

\* any(u["name"] == name for u in units); NaN == NaN is False
HasName(units, name) == name # NaN /\ \E k \in DOMAIN units : units[k].name = name

\* past day: replay of the log rows of that date
RECURSIVE PastDay(_, _, _, _)
PastDay(df, date, i, acc) ==
    IF i > Len(df) THEN acc
    ELSE IF df[i].date = date /\ ~HasName(acc.units, dt(UnitOf(df[i])))
         THEN PastDay(df, date, i + 1,
                [units |-> Append(acc.units,
                              [name |-> dt(UnitOf(df[i])), type |-> "completed",
                               subject |-> SubjectOf(df[i])]),
                 time |-> acc.time + df[i].mins])
         ELSE PastDay(df, date, i + 1, acc)

\* variant: review units added without the time check
RECURSIVE AddReviewsNoBudget(_, _, _, _, _)
AddReviewsNoBudget(df, reviews, i, acc, limit) ==
    IF i > Len(reviews) THEN acc
    ELSE AddReviewsNoBudget(df, reviews, i + 1,
           [units |-> Append(acc.units,
                         [name |-> dt(reviews[i]), type |-> "plan_review",
                          subject |-> FirstSubject(df, reviews[i], "fukushu")]),
            time |-> acc.time + unit_time_mins], limit)

\* A. review units first
RECURSIVE AddReviews(_, _, _, _, _)
AddReviews(df, reviews, i, acc, limit) ==
    IF i > Len(reviews) THEN acc
    ELSE IF acc.time + unit_time_mins <= limit
         THEN AddReviews(df, reviews, i + 1,
                [units |-> Append(acc.units,
                              [name |-> dt(reviews[i]), type |-> "plan_review",
                               subject |-> FirstSubject(df, reviews[i], "fukushu")]),
                 time |-> acc.time + unit_time_mins], limit)
         ELSE AddReviews(df, reviews, i + 1, acc, limit)

\* variant: a weak unit must leave time to spare (< for <=)
RECURSIVE AddWeakStrict(_, _, _, _, _)
AddWeakStrict(df, wl, weak_idx, acc, limit) ==
    IF acc.time + unit_time_mins < limit /\ weak_idx < Len(wl)
    THEN LET unit == wl[weak_idx + 1]
         IN  IF ~HasName(acc.units, dt(unit))
             THEN AddWeakStrict(df, wl, weak_idx + 1,
                    [units |-> Append(acc.units,
                                  [name |-> dt(unit), type |-> "plan_weakness",
                                   subject |-> FirstSubject(df, unit, "jakuten")]),
                     time |-> acc.time + unit_time_mins,
                     weak_idx |-> weak_idx + 1], limit)
             ELSE AddWeakStrict(df, wl, weak_idx + 1,
                    [acc EXCEPT !.weak_idx = weak_idx + 1], limit)
    ELSE acc

\* variant: weak units added without looking for the name on the day
RECURSIVE AddWeakNoDedupe(_, _, _, _, _)
AddWeakNoDedupe(df, wl, weak_idx, acc, limit) ==
    IF acc.time + unit_time_mins <= limit /\ weak_idx < Len(wl)
    THEN AddWeakNoDedupe(df, wl, weak_idx + 1,
           [units |-> Append(acc.units,
                         [name |-> dt(wl[weak_idx + 1]), type |-> "plan_weakness",
                          subject |-> FirstSubject(df, wl[weak_idx + 1], "jakuten")]),
            time |-> acc.time + unit_time_mins,
            weak_idx |-> weak_idx + 1], limit)
    ELSE acc

\* B. weak units while time remains; weak_idx counts from 0 as in the code
RECURSIVE AddWeak(_, _, _, _, _)
AddWeak(df, wl, weak_idx, acc, limit) ==
    IF acc.time + unit_time_mins <= limit /\ weak_idx < Len(wl)
    THEN LET unit == wl[weak_idx + 1]
         IN  IF ~HasName(acc.units, dt(unit))
             THEN AddWeak(df, wl, weak_idx + 1,
                    [units |-> Append(acc.units,
                                  [name |-> dt(unit), type |-> "plan_weakness",
                                   subject |-> FirstSubject(df, unit, "jakuten")]),
                     time |-> acc.time + unit_time_mins,
                     weak_idx |-> weak_idx + 1], limit)
             ELSE AddWeak(df, wl, weak_idx + 1,
                    [acc EXCEPT !.weak_idx = weak_idx + 1], limit)
    ELSE acc

\* C. further weak units while time still remains
RECURSIVE AddStudy(_, _, _, _, _)
AddStudy(df, wl, weak_idx, acc, limit) ==
    IF acc.time + unit_time_mins <= limit
    THEN IF weak_idx < Len(wl)
         THEN LET unit == wl[weak_idx + 1]
              IN  IF ~HasName(acc.units, dt(unit))
                  THEN AddStudy(df, wl, weak_idx + 1,
                         [units |-> Append(acc.units,
                                       [name |-> dt(unit), type |-> "study",
                                        subject |-> FirstSubject(df, unit, "enshu")]),
                          time |-> acc.time + unit_time_mins,
                          weak_idx |-> weak_idx + 1], limit)
                  ELSE AddStudy(df, wl, weak_idx + 1,
                         [acc EXCEPT !.weak_idx = weak_idx + 1], limit)
         ELSE acc
    ELSE acc

\* variant: no minimum guarantee
MinimumGuaranteeNone(df, wl, acc) == acc

\* D. minimum guarantee
MinimumGuarantee(df, wl, acc) ==
    IF acc.units = <<>> /\ wl # <<>>
    THEN [acc EXCEPT
            !.units = Append(acc.units,
                        [name |-> dt(wl[1]), type |-> "plan_weakness",
                         subject |-> FirstSubject(df, wl[1], "enshu")]),
            !.time = acc.time + unit_time_mins]
    ELSE acc

\* variant: a future day planned from the reviews alone
FutureDayReviewsOnly(df, reviews, wl, limit) ==
    AddReviews(df, reviews, 1, [units |-> <<>>, time |-> 0], limit)

FutureDay(df, reviews, wl, limit) ==
    LET a == AddReviews(df, reviews, 1, [units |-> <<>>, time |-> 0], limit)
        b == AddWeak(df, wl, 0,
                     [units |-> a.units, time |-> a.time, weak_idx |-> 0], limit)
        c == AddStudy(df, wl, b.weak_idx, b, limit)
    IN  MinimumGuarantee(df, wl, c)

\* review_candidates.get(date, [])
GetReviews(rc, date) == IF date \in DOMAIN rc THEN rc[date] ELSE <<>>

DayEntry(df, rc, wl, limit, day) ==
    LET date == Today + day
        r == IF day < 0
             THEN PastDay(df, date, 1, [units |-> <<>>, time |-> 0])
             ELSE FutureDay(df, GetReviews(rc, date), wl, limit)
    IN  IF r.units # <<>>
        THEN [units |-> r.units, time_minutes |-> r.time]
        ELSE [units |-> <<>>, time_minutes |-> 0]

start_day == -7
PlanHorizon == 28

\* variant: the exam day itself left out
end_dayExclusive(days_left) == Min(PlanHorizon, days_left)

\* variant: no cap on the planned days
end_dayUncapped(days_left) == days_left + 1

end_day(days_left) == Min(PlanHorizon, days_left + 1)

\* variant: no early return on an empty log
WeeklyPlanResultNoEmptyCheck(df, exam, limit, hash_order, wl) ==
    IF exam = <<>> THEN [kind |-> "None", entries |-> <<>>]
    ELSE LET days_left == exam[1] - Today
         IN  IF days_left < 0 THEN [kind |-> "None", entries |-> <<>>]
             ELSE [kind |-> "Plan",
                   entries |->
                     [date \in {Today + day : day \in start_day..(end_day(days_left) - 1)} |->
                         [units |-> <<>>, time_minutes |-> 0]]]

\* the value generate_weekly_study_plan returns
WeeklyPlanResult(df, exam, limit, hash_order, wl) ==
    IF exam = <<>> THEN [kind |-> "None", entries |-> <<>>]
    ELSE LET days_left == exam[1] - Today
         IN  IF days_left < 0 THEN [kind |-> "None", entries |-> <<>>]
             ELSE IF df = <<>> THEN [kind |-> "None", entries |-> <<>>]
             ELSE LET rc == review_candidates(df, days_left, hash_order)
                  IN  [kind |-> "Plan",
                       entries |->
                         [date \in {Today + day : day \in start_day..(end_day(days_left) - 1)} |->
                             DayEntry(df, rc, wl, limit, date - Today)]]

\* df["date_obj"] = ... writes a column into the frame of the caller, once
\* the three early returns are passed
ColumnsAfterPlan(df, exam, columns) ==
    IF exam = <<>> THEN columns
    ELSE IF exam[1] - Today < 0 THEN columns
    ELSE IF df = <<>> THEN columns
    ELSE columns \cup {"date_obj"}

----------------------------------------------------------------------------
(* Analysis period of the sidebar: by default the last 7 days of the log *)

AnalysisDays == 7

MaxDate(df) == CHOOSE d \in {df[i].date : i \in DOMAIN df} :
                  \A i \in DOMAIN df : df[i].date <= d

PeriodFilter(df) ==
    IF df = <<>> THEN df
    ELSE LET ed == MaxDate(df)
             sd == ed - AnalysisDays
         IN  SelectSeq(df, LAMBDA row : row.date >= sd /\ row.date <= ed)

----------------------------------------------------------------------------
(* generate_study_roadmap_detailed *)

HasDifficultyColumn(master) == \A p \in DOMAIN master : master[p].tier # "none"

\* variant: the lowest tier as the default of a catalog without the column
DifficultyDefaultLow(master, p) ==
    IF HasDifficultyColumn(master) THEN master[p].tier ELSE "low"

\* 難易度 of a catalog row; "中" for every row when the column is missing
Difficulty(master, p) ==
    IF HasDifficultyColumn(master) THEN master[p].tier ELSE "mid"

\* rows of the left join whose 難易度 is not NaN
MergedRows(df, master) == {i \in DOMAIN df : df[i].pid \in DOMAIN master}

DiffData(df, master, diff) ==
    {i \in MergedRows(df, master) : Difficulty(master, df[i].pid) = diff}

MasterDiff(master, diff) == {p \in DOMAIN master : Difficulty(master, p) = diff}

\* a division num / den as the code writes it, and the literal 0
Ratio(num, den) == [num |-> num, den |-> den]
Zero == [num |-> 0, den |-> 1]

\* variant: accuracy and coverage divided out for a tier without rows too
DifficultyStatsAlwaysDivided(df, master, diff) ==
    LET diff_data == DiffData(df, master, diff)
        solved == Cardinality({df[i].pid : i \in diff_data})
        total == Cardinality(MasterDiff(master, diff))
        correct == Cardinality({i \in diff_data : df[i].miss = 0})
        attempts == Cardinality(diff_data)
    IN  [solved |-> solved, total |-> total, correct |-> correct, attempts |-> attempts,
         accuracy |-> Ratio(correct, attempts),
         coverage |-> Ratio(solved * 100, total),
         units |-> {master[p].unit : p \in MasterDiff(master, diff)}]

\* variant: solved counts the rows of the tier, not the distinct 問題ID
DifficultyStatsSolvedByRows(df, master, diff) ==
    LET diff_data == DiffData(df, master, diff)
        total == Cardinality(MasterDiff(master, diff))
        correct == Cardinality({i \in diff_data : df[i].miss = 0})
        attempts == Cardinality(diff_data)
    IN  [solved |-> attempts, total |-> total, correct |-> correct, attempts |-> attempts,
         accuracy |-> IF attempts > 0 THEN Ratio(correct, attempts) ELSE Zero,
         coverage |-> IF attempts > 0 /\ total > 0 THEN Ratio(attempts * 100, total) ELSE Zero,
         units |-> {master[p].unit : p \in MasterDiff(master, diff)}]

\* difficulty_stats[diff]; accuracy is correct / attempts and coverage is
\* solved / total * 100, both 0 when the tier has no row
DifficultyStats(df, master, diff) ==
    LET diff_data == DiffData(df, master, diff)
        total == Cardinality(diff_data)
        correct == Cardinality({i \in diff_data : df[i].miss = 0})
        total_problems_in_master == Cardinality(MasterDiff(master, diff))
        solved == Cardinality({df[i].pid : i \in diff_data})
    IN  IF diff_data # {}
        THEN [solved |-> solved,
              total |-> total_problems_in_master,
              correct |-> correct,
              attempts |-> total,
              accuracy |-> IF total > 0 THEN Ratio(correct, total) ELSE Zero,
              coverage |-> IF total_problems_in_master > 0
                           THEN Ratio(solved * 100, total_problems_in_master)
                           ELSE Zero,
              units |-> {master[p].unit : p \in MasterDiff(master, diff)}]
        ELSE [solved |-> 0,
              total |-> total_problems_in_master,
              correct |-> 0,
              attempts |-> 0,
              accuracy |-> Zero,
              coverage |-> Zero,
              units |-> {master[p].unit : p \in MasterDiff(master, diff)}]

MasteryAccuracyPct == 80
MasteryCoveragePct == 70

\* accuracy >= 0.8
AccuracyReached(st) ==
    st.attempts > 0 /\ st.correct * 100 >= MasteryAccuracyPct * st.attempts

\* coverage >= 70
CoverageReached(st) ==
    st.attempts > 0 /\ st.total > 0 /\ st.solved * 100 >= MasteryCoveragePct * st.total

\* variant: one of the two thresholds is enough
MasteredEither(st) == AccuracyReached(st) \/ CoverageReached(st)

Mastered(st) == AccuracyReached(st) /\ CoverageReached(st)

\* variant: the coverage comparison turned around
TierStatusCoverageSwapped(st) ==
    IF AccuracyReached(st) /\ st.solved * 100 <= MasteryCoveragePct * st.total
    THEN "status_completed"
    ELSE IF st.attempts > 0 THEN "status_in_progress" ELSE "status_not_started"

TierStatus(st) ==
    IF Mastered(st) THEN "status_completed"
    ELSE IF st.attempts > 0 THEN "status_in_progress" ELSE "status_not_started"

\* problems of the tier whose 問題ID is not in the log
Unsolved(df, master, diff) ==
    {p \in MasterDiff(master, diff) : \A i \in DOMAIN df : df[i].pid # p}

\* variant: any unit of the problems, frequent or not
TopUnitsAnyUnit(master, ps) == {master[p].unit : p \in ps}

\* value_counts().head(3).index[0]: a unit with the most problems among ps
TopUnits(master, ps) ==
    LET n(u) == Cardinality({p \in ps : master[p].unit = u})
    IN  {master[p].unit : p \in {q \in ps : \A r \in ps : n(master[q].unit) >= n(master[r].unit)}}

Recommend(df, master, diff, startKey, aimKey, reviewKey) ==
    LET unsolved == Unsolved(df, master, diff)
    IN  IF unsolved # {}
        THEN {[keys |-> <<startKey, aimKey, "rec_current_coverage">>, unit |-> <<u>>] :
                 u \in TopUnits(master, unsolved)}
        ELSE {[keys |-> <<reviewKey, "rec_aim_stable_80">>, unit |-> <<>>]}

NoRoadmap == [kind |-> "None"]

\* the values generate_study_roadmap_detailed can return
RoadmapResults(df, master_in) ==
    IF df = <<>> \/ DOMAIN master_in = {} THEN {NoRoadmap}
    ELSE IF MergedRows(df, master_in) = {} THEN {NoRoadmap}
    ELSE LET stats == [diff \in Tiers |-> DifficultyStats(df, master_in, diff)]
             phase == IF Mastered(stats["low"])
                      THEN IF Mastered(stats["mid"]) THEN "Advanced" ELSE "Standard"
                      ELSE "Basic"
             recs == IF phase = "Advanced"
                     THEN {[keys |-> <<"rec_continue_advanced", "rec_aim_high_accuracy",
                                       "rec_reduce_time">>, unit |-> <<>>]}
                     ELSE IF phase = "Standard"
                     THEN Recommend(df, master_in, "mid", "rec_next_challenge",
                                    "rec_aim_standard_80", "rec_review_standard")
                     ELSE Recommend(df, master_in, "low", "rec_start_basic",
                                    "rec_aim_basic_80", "rec_review_basic")
         IN  {[kind |-> "Roadmap",
               phase |-> phase,
               recommendations |-> rec,
               stats |-> stats,
               status |-> [diff \in Tiers |-> TierStatus(stats[diff])]] : rec \in recs}

----------------------------------------------------------------------------
(* KPI block: the per-unit aggregate and the log grouped by day *)

\* agg = df.groupby("単元") with 正答率 = (試行回数 - ミス数) / 試行回数;
\* pd.DataFrame() for an empty log
UnitAggregate(df) ==
    IF df = <<>> THEN [kind |-> "Agg", rows |-> <<>>]
    ELSE [kind |-> "Agg",
          rows |-> [unit \in UnitsIn(df) |->
                      [miss |-> MissSum(df, unit),
                       trials |-> TrialCount(df, unit),
                       accuracy |-> Ratio(TrialCount(df, unit) - MissSum(df, unit),
                                          TrialCount(df, unit))]]]

\* 目標時間 of a row: 目標解答時間(秒) of the catalog times time_factor (1.0 for
\* the policy 標準); every catalog problem is given 60 seconds
TargetSecs(pid) == 60

RECURSIVE AnswerSecsOfRows(_, _)
AnswerSecsOfRows(df, rows) ==
    IF rows = {} THEN 0
    ELSE LET i == CHOOSE k \in rows : TRUE
         IN  df[i].secs + AnswerSecsOfRows(df, rows \ {i})

RECURSIVE TargetSecsOfRows(_, _)
TargetSecsOfRows(df, rows) ==
    IF rows = {} THEN 0
    ELSE LET i == CHOOSE k \in rows : TRUE
         IN  TargetSecs(df[i].pid) + TargetSecsOfRows(df, rows \ {i})

UnitRows(df, unit) == {i \in DOMAIN df : UnitOf(df[i]) = unit}

\* sums over the rows of a unit: 平均解答時間 and 目標時間 of agg are these
\* sums over 試行回数
AnswerSecsSum(df, unit) == AnswerSecsOfRows(df, UnitRows(df, unit))
TargetSecsSum(df, unit) == TargetSecsOfRows(df, UnitRows(df, unit))

\* 優先度 of agg = (1 - 正答率) * 2 + (平均解答時間 / 目標時間 - 1).clip(0, 1), as
\* a fraction over DisplayPriorityDen
DisplayPriorityNum(df, unit) ==
    LET over == AnswerSecsSum(df, unit) - TargetSecsSum(df, unit)
        clipped == IF over < 0 THEN 0
                   ELSE IF over > TargetSecsSum(df, unit) THEN TargetSecsSum(df, unit)
                   ELSE over
    IN  2 * MissSum(df, unit) * TargetSecsSum(df, unit) + clipped * TrialCount(df, unit)

DisplayPriorityDen(df, unit) == TrialCount(df, unit) * TargetSecsSum(df, unit)

DisplayPriority(df, unit) == Ratio(DisplayPriorityNum(df, unit), DisplayPriorityDen(df, unit))

DisplayPriorityGeq(df, u, v) ==
    DisplayPriorityNum(df, u) * DisplayPriorityDen(df, v)
        >= DisplayPriorityNum(df, v) * DisplayPriorityDen(df, u)

\* agg.sort_values("優先度", ascending=False): the orders the rows of agg can
\* be left in, rows of equal 優先度 in an order the sort algorithm picks
AggOrders(df) ==
    {s \in Perms(UnitsIn(df)) :
        \A i, j \in DOMAIN s : i < j => DisplayPriorityGeq(df, s[i], s[j])}

\* the values of agg after the KPI block: the rows and their order
SortedAggregates(df) ==
    IF df = <<>> THEN {[kind |-> "Agg", rows |-> <<>>, order |-> <<>>, priority |-> <<>>]}
    ELSE {[kind |-> "Agg",
           rows |-> UnitAggregate(df).rows,
           order |-> s,
           priority |-> [unit \in UnitsIn(df) |-> DisplayPriority(df, unit)]] :
             s \in AggOrders(df)}

\* tu = agg.iloc[0]: the unit of the card of the top-priority unit
TopPriorityUnit(a) == IF a.order = <<>> THEN <<>> ELSE <<a.order[1]>>

\* q_count = max(1, min(5, int(row["優先度"] * 4)))
QuestionCount(p) ==
    LET q == (4 * p.num) \div p.den
    IN  IF q < 1 THEN 1 ELSE IF q > 5 THEN 5 ELSE q

\* top_3 = agg.head(3): the rows of today's menu
TodaysMenu(a) ==
    [k \in 1..Min(3, Len(a.order)) |->
        [unit |-> dt(a.order[k]), questions |-> QuestionCount(a.priority[a.order[k]])]]

DatesOf(df) == {df[i].date : i \in DOMAIN df}

\* the dates of the log in ascending order, as groupby("日") leaves them
SortedDates(df) ==
    CHOOSE s \in Perms(DatesOf(df)) : \A i, j \in DOMAIN s : i < j => s[i] < s[j]

\* bd = groupby("日")["ミス"].agg(["sum", "count"])
DailyStats(df) ==
    [k \in 1..Cardinality(DatesOf(df)) |->
        LET rows == {i \in DOMAIN df : df[i].date = SortedDates(df)[k]}
        IN  [sum |-> Cardinality({i \in rows : df[i].miss = 1}),
             count |-> Cardinality(rows)]]

----------------------------------------------------------------------------
(* Goal-date forecast: linear regression over the daily accuracy *)

RECURSIVE GCD(_, _)
GCD(a, b) == IF b = 0 THEN a ELSE GCD(b, a % b)

LCM(a, b) == (a * b) \div GCD(a, b)

RECURSIVE SumOver(_, _, _)
\* sum of f[i] for i in lo..hi
SumOver(f, lo, hi) == IF lo > hi THEN 0 ELSE f[lo] + SumOver(f, lo + 1, hi)

RECURSIVE LcmCounts(_, _)
LcmCounts(days, i) == IF i > Len(days) THEN 1 ELSE LCM(days[i].count, LcmCounts(days, i + 1))

TotalCount(days) == SumOver([i \in DOMAIN days |-> days[i].count], 1, Len(days))
TotalMisses(days) == SumOver([i \in DOMAIN days |-> days[i].sum], 1, Len(days))

\* cor_r >= tgt_r with cor_r = 1 - df["ミス"].mean() and tgt_r = target / 100
RateReached(days, target) ==
    (TotalCount(days) - TotalMisses(days)) * 100 >= target * TotalCount(days)

\* bd["正答率"] = (count - sum) / count of day i, as a fraction
DayAccuracyNum(days, i) == days[i].count - days[i].sum

AllEqual(days) ==
    \A i, j \in DOMAIN days :
        DayAccuracyNum(days, i) * days[j].count = DayAccuracyNum(days, j) * days[i].count

RECURSIVE PowerOfTwo(_)
PowerOfTwo(n) == n = 1 \/ (n > 1 /\ n % 2 = 0 /\ PowerOfTwo(n \div 2))

\* a fraction whose double is exact: the denominator in lowest terms is a
\* power of two
Dyadic(num, den) == PowerOfTwo(den \div GCD(num, den))

\* np.std(y) == 0 on doubles: a varying series never has std 0. For a
\* constant series of an exactly representable value the mean is that value
\* and std is 0. For any other constant value v the mean sum(y)/n is rounded:
\* with n = 3 the double of v * 3 / 3 differs from v exactly for v in
\* {1/5, 2/5, 4/5, 1/10, 7/10} among the fractions of denominator up to 10,
\* and with n > 3 the rounding depends on the order of the summation loop,
\* so both outcomes are kept.
MeanDriftsAtThree(num, den) ==
    LET g == GCD(num, den)
    IN  <<num \div g, den \div g>> \in {<<1, 5>>, <<2, 5>>, <<4, 5>>, <<1, 10>>, <<7, 10>>}

StdIsZero(days) ==
    IF ~AllEqual(days) THEN {FALSE}
    ELSE IF Dyadic(DayAccuracyNum(days, 1), days[1].count) THEN {TRUE}
    ELSE IF Len(days) = 3
         THEN {~MeanDriftsAtThree(DayAccuracyNum(days, 1), days[1].count)}
         ELSE {TRUE, FALSE}

\* least squares over x = 0..n-1 with y scaled by L = lcm of the day counts:
\* slope = SlopeNum / (L * FitDen), intercept = InterceptNum / (L * FitDen)
ScaledY(days) ==
    LET L == LcmCounts(days, 1)
    IN  [i \in DOMAIN days |-> DayAccuracyNum(days, i) * (L \div days[i].count)]

SumX(n) == SumOver([i \in 1..n |-> i - 1], 1, n)
SumXX(n) == SumOver([i \in 1..n |-> (i - 1) * (i - 1)], 1, n)
SumY(days) == SumOver(ScaledY(days), 1, Len(days))
SumXY(days) == SumOver([i \in DOMAIN days |-> (i - 1) * ScaledY(days)[i]], 1, Len(days))

FitDen(n) == n * SumXX(n) - SumX(n) * SumX(n)
SlopeNum(days) == Len(days) * SumXY(days) - SumX(Len(days)) * SumY(days)
InterceptNum(days) == SumY(days) * SumXX(Len(days)) - SumX(Len(days)) * SumXY(days)

\* slope <= 0.001
SlopeFlat(days) == 1000 * SlopeNum(days) <= LcmCounts(days, 1) * FitDen(Len(days))

\* days_remaining = (tgt_r - intercept) / slope - (len(bd) - 1)
\*                = RemainingNum / RemainingDen, for a positive slope
RemainingNum(days, target) ==
    target * LcmCounts(days, 1) * FitDen(Len(days))
    - 100 * InterceptNum(days)
    - 100 * SlopeNum(days) * (Len(days) - 1)

RemainingDen(days) == 100 * SlopeNum(days)

YearDays == 365

Card(text, sub, fitted, days) ==
    [kind |-> "Prediction", text |-> text, sub |-> sub, fitted |-> fitted, days |-> days]

\* variant: no limit of one year on the projected date
ProjectionWithoutYearLimit(days, target) ==
    LET rn == RemainingNum(days, target)
        rd == RemainingDen(days)
    IN  IF rn <= 0 THEN {Card("close_to_achieving", "almost_there", TRUE, <<>>)}
        ELSE {Card("date", "predicted_achievement_date", TRUE, <<rn \div rd>>)}

\* the branches on days_remaining; where the exact value is an integer the
\* double that polyfit yields may lie on either side of it
Projection(days, target) ==
    LET rn == RemainingNum(days, target)
        rd == RemainingDen(days)
        k == rn \div rd
        whole == rn % rd = 0
        close == Card("close_to_achieving", "almost_there", TRUE, <<>>)
        far == Card("over_1_year", "speed_up_needed", TRUE, <<>>)
        date(d) == Card("date", "predicted_achievement_date", TRUE, <<d>>)
    IN  IF rn < 0 THEN {close}
        ELSE IF rn = 0 THEN {close, date(0)}
        ELSE IF k > YearDays \/ (k = YearDays /\ ~whole) THEN {far}
        ELSE IF k = YearDays THEN {far, date(YearDays - 1), date(YearDays)}
        ELSE IF whole THEN {date(k - 1), date(k)}
        ELSE {date(k)}

\* variant: the slope test before the test of the current rate
FitOutcomeSlopeFirst(days, target) ==
    IF SlopeFlat(days)
    THEN {Card("no_improvement", "review_study_method", TRUE, <<>>)}
    ELSE IF RateReached(days, target)
    THEN {Card("achieved_exclamation", "goal_cleared", TRUE, <<>>)}
    ELSE Projection(days, target)

\* after np.polyfit(x, y, 1)
FitOutcome(days, target) ==
    IF RateReached(days, target)
    THEN {Card("achieved_exclamation", "goal_cleared", TRUE, <<>>)}
    ELSE IF SlopeFlat(days)
    THEN {Card("no_improvement", "review_study_method", TRUE, <<>>)}
    ELSE Projection(days, target)

MinForecastDays == 3

\* variant: no branch of its own for the empty log
ForecastResultsNoEmptyBranch(days, target) ==
    IF Len(days) >= MinForecastDays
    THEN UNION {IF zero
                THEN {Card("no_change", "accuracy_constant", FALSE, <<>>)}
                ELSE FitOutcome(days, target) : zero \in StdIsZero(days)}
    ELSE {Card("data_insufficient", "min_3_days_data", FALSE, <<>>)}

\* the forecast cards the script can show for the grouped log and the target
ForecastResults(days, target) ==
    IF days = <<>>
    THEN {Card("data_insufficient", "no_data", FALSE, <<>>)}
    ELSE IF Len(days) >= MinForecastDays
    THEN UNION {IF zero
                THEN {Card("no_change", "accuracy_constant", FALSE, <<>>)}
                ELSE FitOutcome(days, target) : zero \in StdIsZero(days)}
    ELSE {Card("data_insufficient", "min_3_days_data", FALSE, <<>>)}

----------------------------------------------------------------------------
(* Actions *)

NotCalled == [kind |-> "NotCalled", entries |-> <<>>]

\* a row is appended to the log (form entry or sheet sync); the rerun of the
\* script discards what was computed from the old log
AppendAttempt(date, pid, miss, mins) ==
    /\ df_log' = Append(df_log, [date |-> date, pid |-> pid, miss |-> miss, mins |-> mins, secs |-> 0])
    /\ weekly_plan' = NotCalled
    /\ weak_list' = <<>>
    /\ roadmap' = NotCalled
    /\ prediction' = NotCalled
    /\ df_columns' = LogColumns
    /\ agg' = NotCalled
    /\ UNCHANGED sheet_vars
    /\ UNCHANGED <<df_master, bd, exam_date, daily_study_time, target_rate_user>>

RecordAttempt ==
    /\ Len(df_log) < MaxLog
    /\ \/ \E date \in PlanLogDates, pid \in PlanProblems, miss \in PlanMisses,
                mins \in PlanMinutes :
             AppendAttempt(date, pid, miss, mins)
       \/ \E date \in UnlistedLogDates, miss \in PlanMisses :
             AppendAttempt(date, UnlistedProblem, miss, 0)

RecordRankedAttempt ==
    /\ Len(df_log) < MaxRankLog
    /\ \E date \in RankLogDates, pid \in Problems, miss \in {0, 1} :
          AppendAttempt(date, pid, miss, 0)

\* the roadmap reads the log through counts of rows only: one ordering of
\* each collection of rows is recorded, by 問題ID and result
RowRank(pid, miss) == 2 * ProblemIndex(pid) + miss

RecordRoadmapAttempt ==
    /\ Len(df_log) < MaxRoadmapLog
    /\ \E pid \in RoadmapProblems, miss \in {0, 1} :
          /\ df_log # <<>> =>
                RowRank(df_log[Len(df_log)].pid, df_log[Len(df_log)].miss) <= RowRank(pid, miss)
          /\ AppendAttempt(0, pid, miss, 0)

generate_study_roadmap_detailed ==
    /\ roadmap = NotCalled
    /\ roadmap' \in RoadmapResults(PeriodFilter(df_log), df_master)
    /\ UNCHANGED sheet_vars
    /\ UNCHANGED <<df_master, df_log, bd, exam_date, daily_study_time,
                   target_rate_user, weekly_plan, weak_list, prediction, df_columns, agg>>

\* the attempts of one more day reach the log
RecordDay ==
    /\ Len(bd) < MaxDays
    /\ \E day \in DayStats : bd' = Append(bd, day)
    /\ prediction' = NotCalled
    /\ UNCHANGED sheet_vars
    /\ UNCHANGED <<df_master, df_log, exam_date, daily_study_time, target_rate_user,
                   weekly_plan, weak_list, roadmap, df_columns, agg>>

predict_goal_date ==
    /\ prediction = NotCalled
    /\ prediction' \in ForecastResults(bd, target_rate_user)
    /\ UNCHANGED sheet_vars
    /\ UNCHANGED <<df_master, df_log, bd, exam_date, daily_study_time,
                   target_rate_user, weekly_plan, weak_list, roadmap, df_columns, agg>>

\* a row reaches the log and the script reruns: the analysis period is
\* applied and the log is grouped by day again
LoadAttempt ==
    /\ Len(df_log) < MaxDashLog
    /\ \E date \in DashLogDates, pid \in DashProblems, miss \in {0, 1} :
          /\ df_log' = Append(df_log, [date |-> date, pid |-> pid, miss |-> miss, mins |-> 0, secs |-> 0])
          /\ bd' = DailyStats(PeriodFilter(df_log'))
    /\ weekly_plan' = NotCalled
    /\ weak_list' = <<>>
    /\ roadmap' = NotCalled
    /\ prediction' = NotCalled
    /\ df_columns' = LogColumns
    /\ agg' = NotCalled
    /\ UNCHANGED sheet_vars
    /\ UNCHANGED <<df_master, exam_date, daily_study_time, target_rate_user>>

kpi_aggregation ==
    /\ agg = NotCalled
    /\ agg' \in SortedAggregates(PeriodFilter(df_log))
    /\ UNCHANGED sheet_vars
    /\ UNCHANGED <<df_master, df_log, bd, exam_date, daily_study_time, target_rate_user,
                   weekly_plan, weak_list, roadmap, prediction, df_columns>>

\* the KPI block reads the log through sums over the rows of a unit: one
\* ordering of each collection of rows is recorded
TimedRowRank(row) ==
    4 * ProblemIndex(row.pid) + 2 * row.miss + (IF row.secs > TargetSecs(row.pid) THEN 1 ELSE 0)

\* an attempt with its answer time reaches the log
RecordTimedAttempt ==
    /\ Len(df_log) < MaxKpiLog
    /\ \E pid \in Problems, miss \in {0, 1}, secs \in KpiAnswerSecs :
          LET row == [date |-> Today, pid |-> pid, miss |-> miss, mins |-> 0, secs |-> secs]
          IN  /\ df_log # <<>> => TimedRowRank(df_log[Len(df_log)]) <= TimedRowRank(row)
              /\ df_log' = Append(df_log, row)
    /\ weekly_plan' = NotCalled
    /\ weak_list' = <<>>
    /\ roadmap' = NotCalled
    /\ prediction' = NotCalled
    /\ df_columns' = LogColumns
    /\ agg' = NotCalled
    /\ UNCHANGED sheet_vars
    /\ UNCHANGED <<df_master, bd, exam_date, daily_study_time, target_rate_user>>

generate_weekly_study_plan ==
    /\ weekly_plan = NotCalled
    /\ \E hash_order \in Perms(UniqueUnits(df_log)), wl \in weak_lists(df_log) :
          LET result == WeeklyPlanResult(df_log, exam_date, daily_study_time,
                                         hash_order, wl)
          IN  /\ weekly_plan' = result
              /\ weak_list' = IF result.kind = "Plan" THEN wl ELSE <<>>
              /\ df_columns' = ColumnsAfterPlan(df_log, exam_date, df_columns)
    /\ UNCHANGED sheet_vars
    /\ UNCHANGED <<df_master, df_log, bd, exam_date, daily_study_time,
                   target_rate_user, roadmap, prediction, agg>>

----------------------------------------------------------------------------
(* GoogleSheetsManager: the sheet User_Settings *)

\* a value of a cell or of a setting: a text or a number
TextValue(text) == [kind |-> "str", text |-> text, num |-> 0]
NumberValue(n) == [kind |-> "int", text |-> "", num |-> n]

Users == {"alice@x", "bob@x"}

SettingsExamDays == {3, 30}

\* the time policies of the sidebar: 標準, 厳しく(-10%), 緩く(+10%)
TimePolicies == {"standard", "strict", "loose"}

Settings(company, target, daily, policy, exam) ==
    [company_name |-> TextValue(company), target_rate_user |-> target,
     daily_study_time |-> daily, time_policy |-> policy, exam_date |-> exam]

\* values the callback save_settings of the sidebar can hand over: the
\* target from 0 to 100, the time from 10 to 180, each policy, the exam date
\* set or None, the company a free text
SettingsValues ==
    {Settings("", 80, 60, "standard", <<>>),
     Settings("Acme", 100, 180, "strict", <<3>>),
     Settings("Acme", 0, 10, "loose", <<30>>),
     Settings("alice@x", 80, 60, "standard", <<3>>),
     Settings("42", 50, 60, "standard", <<>>)}

\* exam_date.strftime("%Y-%m-%d"), "" for None
DateText(exam) == IF exam = <<>> THEN "" ELSE "D" \o ToString(exam[1])

\* datetime.strptime(text, "%Y-%m-%d").date(); None when it raises
ParseDate(text) ==
    IF \E d \in SettingsExamDays : DateText(<<d>>) = text
    THEN <<CHOOSE d \in SettingsExamDays : DateText(<<d>>) = text>>
    ELSE <<>>

\* the number a text reads as, <<>> for a text that is no number
NumberOf(text) == IF text = "42" THEN <<42>> ELSE <<>>

\* get_all_records: a text that reads as a number comes back as the number
Numericise(cell) ==
    IF cell.kind = "str" /\ NumberOf(cell.text) # <<>>
    THEN NumberValue(NumberOf(cell.text)[1])
    ELSE cell

\* row_data
RowOf(username, settings) ==
    [user |-> username,
     company |-> settings.company_name,
     target |-> settings.target_rate_user,
     daily |-> settings.daily_study_time,
     policy |-> settings.time_policy,
     exam |-> DateText(settings.exam_date)]

\* username in df["User"].values
HasUser(sheet, username) == \E i \in DOMAIN sheet : sheet[i].user = username

\* a cell of the row holds the text
CellsMatch(row, text) ==
    \/ row.user = text
    \/ (row.company.kind = "str" /\ row.company.text = text)
    \/ row.policy = text
    \/ row.exam = text

\* worksheet.find(username).row: the first row, from the top, with a cell
\* whose value is the text, in any column
FindRow(sheet, text) ==
    CHOOSE i \in DOMAIN sheet :
        CellsMatch(sheet[i], text) /\ \A j \in 1..(i - 1) : ~CellsMatch(sheet[j], text)

\* the cells update_cell writes, in the order of the calls
UpdatedColumns == <<"company", "target", "daily", "policy", "exam">>

\* how many of these calls return before one raises: none, those of
\* Company and TargetRate, or all
WrittenCells == {0, 2, Len(UpdatedColumns)}

\* the row after the first `written` calls of update_cell
UpdateCells(row, settings, written) ==
    [row EXCEPT !.company = IF written >= 1 THEN settings.company_name ELSE @,
                !.target = IF written >= 2 THEN settings.target_rate_user ELSE @,
                !.daily = IF written >= 3 THEN settings.daily_study_time ELSE @,
                !.policy = IF written >= 4 THEN settings.time_policy ELSE @,
                !.exam = IF written >= 5 THEN DateText(settings.exam_date) ELSE @]

NoCall == [op |-> "none"]

SaveCall(username, settings, success) ==
    [op |-> "save", user |-> username, settings |-> settings, success |-> success]

\* save_user_settings(username, settings); a call of the API can raise: the
\* sheet is not reached, or a write fails, after which the method returns
\* (False, error)
save_user_settings ==
    /\ \E username \in Users, settings \in SettingsValues :
          \/ /\ settings_sheet' = settings_sheet
             /\ settings_call' = SaveCall(username, settings, FALSE)
          \/ /\ HasUser(settings_sheet, username)
             /\ \E written \in WrittenCells :
                   LET row == FindRow(settings_sheet, username)
                   IN  /\ settings_sheet' =
                             [settings_sheet EXCEPT
                                 ![row] = UpdateCells(settings_sheet[row], settings, written)]
                       /\ settings_call' =
                             SaveCall(username, settings, written = Len(UpdatedColumns))
          \/ /\ ~HasUser(settings_sheet, username)
             /\ settings_sheet' = Append(settings_sheet, RowOf(username, settings))
             /\ settings_call' = SaveCall(username, settings, TRUE)
    /\ UNCHANGED <<user_sheet, sync_call>>
    /\ UNCHANGED app_vars

\* the settings dictionary load_user_settings builds from the row of the user
LoadedSettings(user_row) ==
    [company_name |-> Numericise(user_row.company),
     target_rate_user |-> IF user_row.target # 0 THEN user_row.target ELSE 80,
     daily_study_time |-> IF user_row.daily # 0 THEN user_row.daily ELSE 60,
     time_policy |-> user_row.policy,
     exam_date |-> IF user_row.exam # "" THEN ParseDate(user_row.exam) ELSE <<>>]

\* what load_user_settings(username) returns on a sheet
LoadResult(sheet, username) ==
    IF HasUser(sheet, username)
    THEN [kind |-> "settings",
          settings |-> LoadedSettings(
                          sheet[CHOOSE i \in DOMAIN sheet :
                                   /\ sheet[i].user = username
                                   /\ \A j \in 1..(i - 1) : sheet[j].user # username])]
    ELSE [kind |-> "none"]

load_user_settings ==
    /\ \E username \in Users :
          \E result \in {LoadResult(settings_sheet, username), [kind |-> "error"]} :
             settings_call' =
                 [op |-> "load", user |-> username, result |-> result,
                  after |-> IF settings_call.op = "save" THEN settings_call ELSE NoCall]
    /\ UNCHANGED <<settings_sheet, user_sheet, sync_call>>
    /\ UNCHANGED app_vars

----------------------------------------------------------------------------
(* GoogleSheetsManager: the log sheet of a user *)

\* the header get_or_create_user_sheet writes, and another header a CSV
\* file can have
LogHeader == "header"
CsvHeaders == {"header", "other_header"}

SheetRows == {"r1", "r2"}

\* the CSV files handed to sync_from_csv: one pd.read_csv cannot read, and
\* readable ones by their columns and rows
CsvFiles ==
    {[readable |-> FALSE, columns |-> "", rows |-> <<>>]}
    \cup {[readable |-> TRUE, columns |-> c, rows |-> r] :
             c \in CsvHeaders, r \in {<<>>, <<"r2">>, <<"r1", "r2">>}}

\* where a call of the API raises in sync_from_csv, if anywhere
ApiFailures == {"none", "get_sheet", "clear", "append_row", "append_rows"}

\* add_data: one more row below the rows of the sheet
add_data ==
    /\ Len(user_sheet) < MaxSheetRows + 1
    /\ \E row \in SheetRows : user_sheet' = Append(user_sheet, row)
    /\ sync_call' = NoCall
    /\ UNCHANGED <<settings_sheet, settings_call>>
    /\ UNCHANGED app_vars

\* the sheet after sync_from_csv: clear(), append_row(columns),
\* append_rows(values), up to the call that raises
SheetAfterSync(sheet, csv, failure) ==
    IF ~csv.readable \/ failure \in {"get_sheet", "clear"} THEN sheet
    ELSE IF failure = "append_row" THEN <<>>
    ELSE IF failure = "append_rows" THEN <<csv.columns>>
    ELSE <<csv.columns>> \o csv.rows

sync_from_csv ==
    /\ \E csv \in CsvFiles, failure \in ApiFailures :
          /\ user_sheet' = SheetAfterSync(user_sheet, csv, failure)
          /\ sync_call' = [op |-> "sync", csv |-> csv,
                           success |-> (csv.readable /\ failure = "none"),
                           before |-> user_sheet]
    /\ UNCHANGED <<settings_sheet, settings_call>>
    /\ UNCHANGED app_vars

InitSheets ==
    /\ settings_sheet = <<>>
    /\ settings_call = NoCall
    /\ user_sheet = <<LogHeader>>
    /\ sync_call = NoCall

InitPlan ==
    /\ df_master = PlanMaster
    /\ df_log = <<>>
    /\ bd = <<>>
    /\ exam_date \in PlanExamDates
    /\ daily_study_time \in PlanDailyLimits
    /\ target_rate_user = 80
    /\ weekly_plan = NotCalled
    /\ weak_list = <<>>
    /\ roadmap = NotCalled
    /\ prediction = NotCalled
    /\ df_columns = LogColumns
    /\ agg = NotCalled
    /\ InitSheets

NextPlan ==
    \/ RecordAttempt
    \/ generate_weekly_study_plan

SpecPlan == InitPlan /\ [][NextPlan]_vars

InitRank ==
    /\ df_master = PlanMaster
    /\ df_log = <<>>
    /\ bd = <<>>
    /\ exam_date \in RankExamDates
    /\ daily_study_time \in RankDailyLimits
    /\ target_rate_user = 80
    /\ weekly_plan = NotCalled
    /\ weak_list = <<>>
    /\ roadmap = NotCalled
    /\ prediction = NotCalled
    /\ df_columns = LogColumns
    /\ agg = NotCalled
    /\ InitSheets

NextRank ==
    \/ RecordRankedAttempt
    \/ generate_weekly_study_plan

SpecRank == InitRank /\ [][NextRank]_vars

InitRoadmap ==
    /\ df_master \in RoadmapMasters
    /\ df_log = <<>>
    /\ bd = <<>>
    /\ exam_date = <<>>
    /\ daily_study_time = 60
    /\ target_rate_user = 80
    /\ weekly_plan = NotCalled
    /\ weak_list = <<>>
    /\ roadmap = NotCalled
    /\ prediction = NotCalled
    /\ df_columns = LogColumns
    /\ agg = NotCalled
    /\ InitSheets

NextRoadmap ==
    \/ RecordRoadmapAttempt
    \/ generate_study_roadmap_detailed

SpecRoadmap == InitRoadmap /\ [][NextRoadmap]_vars

InitForecast ==
    /\ df_master = PlanMaster
    /\ df_log = <<>>
    /\ bd = <<>>
    /\ exam_date = <<>>
    /\ daily_study_time = 60
    /\ target_rate_user \in ForecastTargets
    /\ weekly_plan = NotCalled
    /\ weak_list = <<>>
    /\ roadmap = NotCalled
    /\ prediction = NotCalled
    /\ df_columns = LogColumns
    /\ agg = NotCalled
    /\ InitSheets

NextForecast ==
    \/ RecordDay
    \/ predict_goal_date

SpecForecast == InitForecast /\ [][NextForecast]_vars

InitDashboard ==
    /\ df_master \in DashMasters
    /\ df_log = <<>>
    /\ bd = <<>>
    /\ exam_date \in DashExamDates
    /\ daily_study_time = 60
    /\ target_rate_user = 80
    /\ weekly_plan = NotCalled
    /\ weak_list = <<>>
    /\ roadmap = NotCalled
    /\ prediction = NotCalled
    /\ df_columns = LogColumns
    /\ agg = NotCalled
    /\ InitSheets

NextDashboard ==
    \/ LoadAttempt
    \/ kpi_aggregation
    \/ generate_weekly_study_plan
    \/ generate_study_roadmap_detailed
    \/ predict_goal_date

SpecDashboard == InitDashboard /\ [][NextDashboard]_vars

InitKpi ==
    /\ df_master = PlanMaster
    /\ df_log = <<>>
    /\ bd = <<>>
    /\ exam_date \in RankExamDates
    /\ daily_study_time = 60
    /\ target_rate_user = 80
    /\ weekly_plan = NotCalled
    /\ weak_list = <<>>
    /\ roadmap = NotCalled
    /\ prediction = NotCalled
    /\ df_columns = LogColumns
    /\ agg = NotCalled
    /\ InitSheets

NextKpi ==
    \/ RecordTimedAttempt
    \/ kpi_aggregation
    \/ generate_weekly_study_plan

SpecKpi == InitKpi /\ [][NextKpi]_vars

\* the state of the dashboard the sheets do not depend on
InitApp ==
    /\ df_master = PlanMaster
    /\ df_log = <<>>
    /\ bd = <<>>
    /\ exam_date = <<>>
    /\ daily_study_time = 60
    /\ target_rate_user = 80
    /\ weekly_plan = NotCalled
    /\ weak_list = <<>>
    /\ roadmap = NotCalled
    /\ prediction = NotCalled
    /\ df_columns = LogColumns
    /\ agg = NotCalled

InitSettings == InitApp /\ InitSheets

NextSettings ==
    \/ save_user_settings
    \/ load_user_settings

SpecSettings == InitSettings /\ [][NextSettings]_vars

InitSync == InitApp /\ InitSheets

NextSync ==
    \/ add_data
    \/ sync_from_csv

SpecSync == InitSync /\ [][NextSync]_vars

----------------------------------------------------------------------------
(* Properties of generate_weekly_study_plan *)

PlanReturned == weekly_plan.kind = "Plan"

PlanDates == DOMAIN weekly_plan.entries

FutureDates == {date \in PlanDates : date >= Today}

\* a day on which only the minimum guarantee placed a unit
FallbackDay(e) ==
    /\ Len(e.units) = 1
    /\ e.units[1].type = "plan_weakness"
    /\ e.time_minutes = unit_time_mins

\* C1 as stated: on every day of the plan, past or future, time_minutes is at
\* most the daily limit unless the day is a minimum-guarantee day.
C1_EveryDayWithinLimit ==
    PlanReturned =>
        \A date \in PlanDates :
            \/ weekly_plan.entries[date].time_minutes <= daily_study_time
            \/ date >= Today /\ FallbackDay(weekly_plan.entries[date])

\* C1 amended: on every future day of the plan time_minutes is at most the
\* daily limit, unless the day is a minimum-guarantee day holding exactly one
\* unit; past days replay the recorded minutes and are not bounded.
C1_FutureDayWithinLimit ==
    PlanReturned =>
        \A date \in FutureDates :
            \/ weekly_plan.entries[date].time_minutes <= daily_study_time
            \/ FallbackDay(weekly_plan.entries[date])

C1_Witness ==
    /\ PlanReturned
    /\ \E date \in FutureDates :
          /\ weekly_plan.entries[date].time_minutes > daily_study_time
          /\ FallbackDay(weekly_plan.entries[date])
    /\ \E date \in PlanDates :
          /\ date < Today
          /\ weekly_plan.entries[date].time_minutes > daily_study_time

HasReview(e, unit) ==
    \E k \in DOMAIN e.units : e.units[k].name = dt(unit) /\ e.units[k].type = "plan_review"

\* C2: on every planned future date D whose due units all fit the budget, a
\* unit is on D with origin review iff it was attempted on D-1, D-3, D-7,
\* D-14 or D-30.
C2_ReviewIffDue ==
    PlanReturned =>
        \A date \in FutureDates :
            unit_time_mins * Cardinality(review_units(df_log, date)) <= daily_study_time
            => \A unit \in UnitsIn(df_log) :
                  HasReview(weekly_plan.entries[date], unit)
                  <=> unit \in review_units(df_log, date)

NoPlan == [kind |-> "None", entries |-> <<>>]

\* C3: without an exam date, with the exam date before today, or with an empty
\* log, generate_weekly_study_plan returns None and builds no day entry.
C3_NoPlanWithoutExamOrLog ==
    (weekly_plan # NotCalled
     /\ (exam_date = <<>> \/ exam_date[1] - Today < 0 \/ df_log = <<>>))
    => (weekly_plan = NoPlan /\ weak_list = <<>>)

C3_Witness ==
    /\ weekly_plan = NoPlan
    /\ exam_date # <<>>
    /\ exam_date[1] = Today - 1
    /\ df_log # <<>>

\* C4 as stated: with the exam date equal to today no plan is returned.
C4_NoPlanOnExamDay ==
    (weekly_plan # NotCalled /\ exam_date = <<Today>>) => weekly_plan = NoPlan

\* C4 amended: with the exam date equal to today and a non-empty log a plan is
\* returned; it holds the seven past days and today, and no later date.
C4_ExamDayPlanned ==
    (weekly_plan # NotCalled /\ exam_date = <<Today>> /\ df_log # <<>>)
    => (PlanReturned /\ PlanDates = (Today - 7)..Today)

C4_Witness ==
    /\ PlanReturned
    /\ exam_date = <<Today>>
    /\ weekly_plan.entries[Today].units # <<>>

Max(a, b) == IF a >= b THEN a ELSE b

\* the entry of a day that holds the first k units of the weak list (all of
\* them when it is shorter), each as a weakness unit
HoldsFirstWeak(e, k) ==
    LET n == Min(k, Len(weak_list))
    IN  /\ Len(e.units) = n
        /\ \A i \in 1..n :
              e.units[i].name = dt(weak_list[i]) /\ e.units[i].type = "plan_weakness"
        /\ e.time_minutes = unit_time_mins * n

\* C5 as stated: a future day with no reviews due holds exactly the first
\* floor(daily_limit / 20) units of the weak list.
C5_FirstUnitsOfWeakList ==
    PlanReturned =>
        \A date \in FutureDates :
            review_units(df_log, date) = {}
            => HoldsFirstWeak(weekly_plan.entries[date], daily_study_time \div 20)

\* C5 amended: a future day with no reviews due holds exactly the first
\* max(1, floor(daily_limit / 20)) units of the weak list, in ranked order,
\* each with origin weakness, and time_minutes is 20 times their number.
C5_FirstUnitsOrGuarantee ==
    PlanReturned =>
        \A date \in FutureDates :
            review_units(df_log, date) = {}
            => HoldsFirstWeak(weekly_plan.entries[date], Max(1, daily_study_time \div 20))

C5_Witness ==
    /\ PlanReturned
    /\ daily_study_time = 20
    /\ Len(weak_list) = 3
    /\ \E date \in FutureDates :
          /\ review_units(df_log, date) = {}
          /\ Len(weekly_plan.entries[date].units) = 1
          /\ weekly_plan.entries[date].units[1].name = dt(weak_list[1])
          /\ weekly_plan.entries[date].time_minutes = 20

SameAccuracy(u, v) ==
    AccuracyNum(df_log, u) * TrialCount(df_log, v)
        = AccuracyNum(df_log, v) * TrialCount(df_log, u)

Position(unit) == CHOOSE i \in DOMAIN weak_list : weak_list[i] = unit

\* C6: the weak list holds every unit with at least one attempt once, in
\* non-increasing order of (1 - accuracy) * attempts, which is the number of
\* misses of the unit; of two units with the same accuracy the one with more
\* attempts comes first unless both have the same score.
C6_WeakListSorted ==
    PlanReturned =>
        /\ Range(weak_list) = UnitsIn(df_log)
        /\ Len(weak_list) = Cardinality(UnitsIn(df_log))
        /\ \A i, j \in DOMAIN weak_list :
              i < j => MissSum(df_log, weak_list[i]) >= MissSum(df_log, weak_list[j])
        /\ \A u, v \in UnitsIn(df_log) :
              (SameAccuracy(u, v) /\ TrialCount(df_log, u) > TrialCount(df_log, v))
              => \/ Position(u) < Position(v)
                 \/ MissSum(df_log, u) = MissSum(df_log, v)

C6_Witness ==
    /\ PlanReturned
    /\ \E u, v \in UnitsIn(df_log) :
          /\ SameAccuracy(u, v)
          /\ TrialCount(df_log, u) > TrialCount(df_log, v)
          /\ MissSum(df_log, u) > MissSum(df_log, v)
          /\ Position(u) < Position(v)

----------------------------------------------------------------------------
(* Properties of generate_study_roadmap_detailed *)

RoadmapReturned == roadmap # NotCalled /\ roadmap.kind = "Roadmap"

\* the tier of a catalog problem as the evaluator sees it
TierOf(p) == IF df_master[p].tier = "none" THEN "mid" ELSE df_master[p].tier

\* log rows of a tier, given as an explicit log
TierRowsOf(df, tier) ==
    {i \in DOMAIN df : df[i].pid \in DOMAIN df_master /\ TierOf(df[i].pid) = tier}

TierCorrectOf(df, tier) == Cardinality({i \in TierRowsOf(df, tier) : df[i].miss = 0})

TierSolvedOf(df, tier) == Cardinality({df[i].pid : i \in TierRowsOf(df, tier)})

TierTotal(tier) == Cardinality({p \in DOMAIN df_master : TierOf(p) = tier})

\* accuracy >= 0.8 and coverage_percent >= 70 of a tier, from the log
TierMasteredOf(df, tier) ==
    /\ TierRowsOf(df, tier) # {}
    /\ 5 * TierCorrectOf(df, tier) >= 4 * Cardinality(TierRowsOf(df, tier))
    /\ 10 * TierSolvedOf(df, tier) >= 7 * TierTotal(tier)

\* C7: the phase is Basic iff low is not mastered, Standard iff low is
\* mastered and mid is not, Advanced iff both are, a tier being mastered iff
\* its accuracy >= 0.8 and its coverage >= 70; the high tier has no say.
C7_PhaseFollowsMastery ==
    RoadmapReturned =>
        /\ roadmap.phase = "Basic" <=> ~TierMasteredOf(df_log, "low")
        /\ roadmap.phase = "Standard"
              <=> (TierMasteredOf(df_log, "low") /\ ~TierMasteredOf(df_log, "mid"))
        /\ roadmap.phase = "Advanced"
              <=> (TierMasteredOf(df_log, "low") /\ TierMasteredOf(df_log, "mid"))

\* one low problem answered correctly twice, one mid problem never attempted
C7_Witness ==
    /\ RoadmapReturned
    /\ DOMAIN df_master = {"P1", "P2"}
    /\ df_master["P1"].tier = "low"
    /\ df_master["P2"].tier = "mid"
    /\ Len(df_log) = 2
    /\ \A i \in DOMAIN df_log : df_log[i].pid = "P1" /\ df_log[i].miss = 0
    /\ roadmap.phase = "Standard"
    /\ roadmap.status["low"] = "status_completed"
    /\ roadmap.status["mid"] = "status_not_started"

\* accuracy and coverage of a tier compared between two logs
AccuracyNotLower(df1, df2, tier) ==
    TierCorrectOf(df2, tier) * Cardinality(TierRowsOf(df1, tier))
        >= TierCorrectOf(df1, tier) * Cardinality(TierRowsOf(df2, tier))

AccuracySame(df1, df2, tier) ==
    TierCorrectOf(df2, tier) * Cardinality(TierRowsOf(df1, tier))
        = TierCorrectOf(df1, tier) * Cardinality(TierRowsOf(df2, tier))

\* the status the evaluator gives the tier for the log df
StatusFor(df, tier) == TierStatus(DifficultyStats(df, df_master, tier))

NextRows ==
    {[date |-> 0, pid |-> p, miss |-> m, mins |-> 0, secs |-> 0] : p \in RoadmapProblems, m \in {0, 1}}

\* C8: once a tier is Completed, one more attempt that raises its accuracy at
\* the same coverage, or raises its coverage at the same accuracy, leaves it
\* Completed.
C8_CompletedStaysCompleted ==
    RoadmapReturned =>
        \A tier \in Tiers : \A row \in NextRows :
            LET df2 == Append(df_log, row)
            IN  (/\ roadmap.status[tier] = "status_completed"
                 /\ \/ /\ AccuracyNotLower(df_log, df2, tier)
                       /\ TierSolvedOf(df2, tier) = TierSolvedOf(df_log, tier)
                    \/ /\ AccuracySame(df_log, df2, tier)
                       /\ TierSolvedOf(df2, tier) >= TierSolvedOf(df_log, tier))
                => StatusFor(df2, tier) = "status_completed"

\* a Completed tier with a problem left and an accuracy below 1, so that
\* one more attempt can raise its coverage and another its accuracy
C8_Witness ==
    /\ RoadmapReturned
    /\ \E tier \in Tiers :
          /\ roadmap.status[tier] = "status_completed"
          /\ roadmap.stats[tier].solved < roadmap.stats[tier].total
          /\ roadmap.stats[tier].correct < roadmap.stats[tier].attempts

----------------------------------------------------------------------------
(* Properties of the goal-date forecast *)

Predicted == prediction # NotCalled

\* the last day's accuracy is below the first day's
Declining(days) ==
    DayAccuracyNum(days, Len(days)) * days[1].count
        < DayAccuracyNum(days, 1) * days[Len(days)].count

\* C9: for a series of at least 3 days whose accuracies are all equal the
\* card reads no-change, whatever the target and the current rate, and no
\* line is fitted.
C9_ConstantSeriesIsFlat ==
    (Predicted /\ Len(bd) >= 3 /\ AllEqual(bd))
    => (prediction.text = "no_change" /\ ~prediction.fitted)

----------------------------------------------------------------------------
(* Determinism and frame of generate_weekly_study_plan *)

\* C11: the plan is a function of the log, the catalog, the settings and the
\* reference date: in whatever order the set of review units of a day is
\* iterated, the call returns the same plan, with the same review units kept
\* in the same order.
C11_PlanIndependentOfSetOrder ==
    [][(weekly_plan = NotCalled /\ weekly_plan' # NotCalled)
        => \A hash_order \in Perms(UniqueUnits(df_log)) :
              weekly_plan' = WeeklyPlanResult(df_log, exam_date, daily_study_time,
                                              hash_order, weak_list')]_vars


\* C12: a call of generate_weekly_study_plan leaves the log frame of the
\* caller as it was: the same rows and the same columns.
C12_LogFrameUnchanged ==
    [][(weekly_plan = NotCalled /\ weekly_plan' # NotCalled)
        => (df_log' = df_log /\ df_columns' = df_columns)]_vars

----------------------------------------------------------------------------
(* The components on an empty log, and the ratios they compute *)

\* C13: with an empty log the plan generator returns no plan, the roadmap
\* returns no result, the unit aggregate has no row and the forecast card
\* reads data-insufficient (no data).
C13_EmptyLogGivesNoData ==
    df_log = <<>> =>
        /\ weekly_plan # NotCalled => weekly_plan.kind = "None"
        /\ roadmap # NotCalled => roadmap = NoRoadmap
        /\ agg # NotCalled => DOMAIN agg.rows = {}
        /\ prediction # NotCalled
              => prediction = Card("data_insufficient", "no_data", FALSE, <<>>)

C13_Witness ==
    /\ df_log = <<>>
    /\ exam_date # <<>>
    /\ weekly_plan.kind = "None"
    /\ roadmap = NoRoadmap
    /\ agg # NotCalled
    /\ prediction # NotCalled

\* C14: every ratio is divided by a denominator of at least 1: the accuracy
\* of a unit is computed for units with an attempt only, the accuracy of a
\* tier without attempts is the literal 0 and so is the coverage of a tier
\* the catalog has no problem of.
C14_NoZeroDenominator ==
    /\ agg # NotCalled =>
          \A unit \in DOMAIN agg.rows :
              agg.rows[unit].trials >= 1 /\ agg.rows[unit].accuracy.den >= 1
    /\ \A k \in DOMAIN weak_list : TrialCount(df_log, weak_list[k]) >= 1
    /\ \A k \in DOMAIN bd : bd[k].count >= 1
    /\ roadmap \notin {NotCalled, NoRoadmap} =>
          \A diff \in Tiers :
              LET st == roadmap.stats[diff]
              IN  /\ st.accuracy.den >= 1
                  /\ st.coverage.den >= 1
                  /\ st.attempts = 0 => st.accuracy = Zero
                  /\ st.total = 0 => st.coverage = Zero

C14_Witness ==
    /\ agg # NotCalled
    /\ DOMAIN agg.rows # {}
    /\ roadmap \notin {NotCalled, NoRoadmap}
    /\ \E diff \in Tiers : roadmap.stats[diff].total = 0
    /\ \E diff \in Tiers : roadmap.stats[diff].total > 0 /\ roadmap.stats[diff].attempts = 0
    /\ \E diff \in Tiers : roadmap.stats[diff].attempts > 0

----------------------------------------------------------------------------
(* The packing of a future day and the replay of a past day *)

\* C15: when the weak list is not empty every future day of the plan holds
\* at least one unit, and with a daily limit below the time of one unit a
\* future day holds exactly weak_list[0], as a weakness unit of 20 minutes.
C15_MinimumGuarantee ==
    (PlanReturned /\ weak_list # <<>>) =>
        \A date \in FutureDates :
            LET e == weekly_plan.entries[date]
            IN  /\ Len(e.units) >= 1
                /\ daily_study_time < 20 =>
                      /\ Len(e.units) = 1
                      /\ e.units[1].name = dt(weak_list[1])
                      /\ e.units[1].type = "plan_weakness"
                      /\ e.time_minutes = 20

C15_Witness ==
    /\ PlanReturned
    /\ Len(weak_list) = 2
    /\ daily_study_time < 20
    /\ \E date \in FutureDates :
          /\ review_units(df_log, date) # {}
          /\ weekly_plan.entries[date].units[1].name = dt(weak_list[1])
          /\ weekly_plan.entries[date].time_minutes > daily_study_time

TypeRank(type) ==
    CASE type = "plan_review" -> 1 [] type = "plan_weakness" -> 2 [] type = "study" -> 3

PositionOfName(name) == CHOOSE i \in DOMAIN weak_list : dt(weak_list[i]) = name

\* C16: on every future day the review units come before the weakness units
\* and these before the fill units, the weakness units follow the order of
\* the weak list, and no weakness or fill unit repeats a name already on the
\* day.
C16_PackingPrecedence ==
    PlanReturned =>
        \A date \in FutureDates :
            LET u == weekly_plan.entries[date].units
            IN  \A i, j \in DOMAIN u :
                    i < j =>
                        /\ TypeRank(u[i].type) <= TypeRank(u[j].type)
                        /\ (u[i].type = "plan_weakness" /\ u[j].type = "plan_weakness")
                              => PositionOfName(u[i].name) < PositionOfName(u[j].name)
                        /\ u[j].type # "plan_review" => u[i].name # u[j].name

C16_Witness ==
    /\ PlanReturned
    /\ \E date \in FutureDates :
          LET u == weekly_plan.entries[date].units
          IN  /\ Len(u) = 2
              /\ u[1].type = "plan_review"
              /\ u[1].name = dt(weak_list[1])
              /\ u[2].type = "plan_weakness"
              /\ u[2].name = dt(weak_list[2])

C18_FutureDaysHoldAUnit ==
    PlanReturned =>
        \A date \in FutureDates : weekly_plan.entries[date].units # <<>>

\* C18 amended: a future day is in the plan with an empty unit list only
\* when the weak list is empty and, on the days reviews are looked up for
\* (the first min(7, days_left) days), no review unit is due or the daily
\* limit is below the time of one unit, and then with 0 minutes; with a weak
\* list every future day holds a unit.
C18_FutureDayEmptyOnlyWithoutWeakList ==
    PlanReturned =>
        \A date \in FutureDates :
            weekly_plan.entries[date].units = <<>>
            => /\ weak_list = <<>>
               /\ (date < Today + 7 /\ date < exam_date[1]
                      /\ daily_study_time >= unit_time_mins)
                     => review_units(df_log, date) = {}
               /\ weekly_plan.entries[date].time_minutes = 0

C18_Witness ==
    /\ PlanReturned
    /\ df_log # <<>>
    /\ FutureDates # {}
    /\ \A date \in FutureDates : weekly_plan.entries[date].units = <<>>

\* the minutes the replay is to count for a row: the recorded minutes, 20
\* when none are recorded
MinutesOrDefault(row) == IF row.mins = 0 THEN 20 ELSE row.mins

RECURSIVE RecordedMinutes(_, _, _)
RecordedMinutes(df, date, i) ==
    IF i > Len(df) THEN 0
    ELSE (IF df[i].date = date THEN MinutesOrDefault(df[i]) ELSE 0)
         + RecordedMinutes(df, date, i + 1)

\* C19: a past day of the plan lists every unit studied that day once, as
\* completed, and its time_minutes is the sum of the minutes recorded that
\* day, 20 for a row without minutes.
C19_PastDayReplaysLog ==
    PlanReturned =>
        \A date \in PlanDates :
            date < Today =>
                LET e == weekly_plan.entries[date]
                IN  /\ {e.units[k].name : k \in DOMAIN e.units}
                          = {dt(unit) : unit \in studied_on_date(df_log, date)}
                    /\ Len(e.units) = Cardinality(studied_on_date(df_log, date))
                    /\ \A k \in DOMAIN e.units : e.units[k].type = "completed"
                    /\ e.time_minutes = RecordedMinutes(df_log, date, 1)

\* C20: a returned plan has one entry for each of the 7 days before today
\* and for each of the min(28, days_left + 1) days from today on, and none
\* for a date after the exam date.
C20_PlanDates ==
    PlanReturned =>
        LET days_left == exam_date[1] - Today
            n == IF days_left + 1 < 28 THEN days_left + 1 ELSE 28
        IN  /\ PlanDates = (Today - 7)..(Today + n - 1)
            /\ \A date \in PlanDates : date <= exam_date[1]

C20_Witness ==
    /\ PlanReturned
    /\ exam_date[1] - Today > 28
    /\ Cardinality(PlanDates) = 35
    /\ Today + 27 \in PlanDates
    /\ Today + 28 \notin PlanDates

----------------------------------------------------------------------------
(* The days reviews are looked up for *)

\* C21: on each of the min(7, days_left + 1) dates from today on, the exam
\* day included, a day with units due for review and a budget of one unit or
\* more starts with a review unit that is due on it.
C21_ReviewsWithinHorizon ==
    PlanReturned =>
        LET days_left == exam_date[1] - Today
            n == IF days_left + 1 < 7 THEN days_left + 1 ELSE 7
        IN  \A date \in Today..(Today + n - 1) :
                (review_units(df_log, date) # {} /\ daily_study_time >= 20)
                => /\ weekly_plan.entries[date].units # <<>>
                   /\ weekly_plan.entries[date].units[1].type = "plan_review"
                   /\ \E unit \in review_units(df_log, date) :
                         weekly_plan.entries[date].units[1].name = dt(unit)

----------------------------------------------------------------------------
(* The projection of the forecast *)

\* C22: for a series of at least 3 days that is not constant, with the
\* current rate below the target: a slope of at most 0.001 gives
\* no-improvement; otherwise, with days_remaining = (target - intercept) /
\* slope - (n - 1), the card reads close-to-achieving when days_remaining is
\* below 0, over-one-year when it is above 365, and else a date of
\* floor(days_remaining) days from today, between 0 and 365 (where
\* days_remaining is a whole number exactly, the day before is admitted for
\* the rounding of the fit).
C22_Projection ==
    (Predicted /\ Len(bd) >= 3 /\ ~AllEqual(bd)
     /\ (TotalCount(bd) - TotalMisses(bd)) * 100 < target_rate_user * TotalCount(bd))
    => IF 1000 * SlopeNum(bd) <= LcmCounts(bd, 1) * FitDen(Len(bd))
       THEN prediction.text = "no_improvement"
       ELSE LET rn == RemainingNum(bd, target_rate_user)
                rd == RemainingDen(bd)
                floor == rn \div rd
                whole == rn % rd = 0
            IN  /\ prediction.text \in {"close_to_achieving", "over_1_year", "date"}
                /\ rn < 0 => prediction.text = "close_to_achieving"
                /\ prediction.text = "close_to_achieving" => rn <= 0
                /\ (floor > 365 \/ (floor = 365 /\ ~whole)) => prediction.text = "over_1_year"
                /\ prediction.text = "over_1_year" => floor >= 365
                /\ (rn > 0 /\ floor < 365 /\ ~whole)
                      => (prediction.text = "date" /\ prediction.days = <<floor>>)
                /\ prediction.text = "date" =>
                      /\ prediction.days[1] \in 0..365
                      /\ \/ prediction.days[1] = floor
                         \/ whole /\ prediction.days[1] = floor - 1

C22_Witness ==
    /\ Predicted
    /\ Len(bd) >= 3
    /\ prediction.text = "date"
    /\ prediction.days[1] >= 1
    /\ RemainingNum(bd, target_rate_user) % RemainingDen(bd) # 0

\* reachable cards of the other branches
C22_FarReached == Predicted /\ prediction.text = "over_1_year"
C22_CloseReached == Predicted /\ prediction.text = "close_to_achieving"
C22_NoImprovementReached == Predicted /\ prediction.text = "no_improvement"

----------------------------------------------------------------------------
(* The recommendation of the roadmap *)

\* the tier a phase works on
ActiveTier == IF roadmap.phase = "Basic" THEN "low" ELSE "mid"

\* catalog problems of the active tier whose id is nowhere in the log given
\* to the evaluator
Unattempted ==
    LET log == PeriodFilter(df_log)
    IN  {p \in DOMAIN df_master :
            TierOf(p) = ActiveTier /\ \A i \in DOMAIN log : log[i].pid # p}

UnattemptedIn(unit) == Cardinality({p \in Unattempted : df_master[p].unit = unit})

\* C23: in the phases Basic and Standard, when some catalog problem of the
\* active tier (low, mid) has an id that is nowhere in the log, the
\* recommendation names a unit with the most unattempted problems of the
\* tier; when every problem of the tier was attempted, the recommendation
\* is the review of the tier with the aim of a stable 80%, and names no unit.
C23_Recommendation ==
    (RoadmapReturned /\ roadmap.phase \in {"Basic", "Standard"}) =>
        LET rec == roadmap.recommendations
        IN  IF Unattempted # {}
            THEN /\ rec.unit # <<>>
                 /\ UnattemptedIn(rec.unit[1]) > 0
                 /\ \A q \in Unattempted :
                        UnattemptedIn(rec.unit[1]) >= UnattemptedIn(df_master[q].unit)
                 /\ rec.keys[1] = (IF roadmap.phase = "Basic" THEN "rec_start_basic"
                                   ELSE "rec_next_challenge")
            ELSE /\ rec.unit = <<>>
                 /\ rec.keys = <<(IF roadmap.phase = "Basic" THEN "rec_review_basic"
                                  ELSE "rec_review_standard"), "rec_aim_stable_80">>

C23_Witness ==
    /\ RoadmapReturned
    /\ roadmap.phase = "Standard"
    /\ roadmap.recommendations.unit = <<"A">>
    /\ \E q \in Unattempted : df_master[q].unit # "A"

\* the review branch is reached in both phases
C23_ReviewBasicReached ==
    RoadmapReturned /\ roadmap.recommendations.keys[1] = "rec_review_basic"
C23_ReviewStandardReached ==
    RoadmapReturned /\ roadmap.recommendations.keys[1] = "rec_review_standard"

----------------------------------------------------------------------------
(* The ordering the displays show *)

BothComputed ==
    /\ agg # NotCalled
    /\ PlanReturned
    /\ agg.order # <<>>

\* a unit is the first of some weak list of the scheduler
CanLeadWeakList(unit) ==
    \A other \in UnitsIn(df_log) : PriorityGeq(df_log, unit, other)

\* C24: the displays follow the ordering of the scheduler, by priority_score
\* = (1 - accuracy) * attempts: the top-priority unit is a unit of the
\* highest priority_score, and the units of today's menu are in descending
\* order of priority_score and are the first units of that ordering.
C24_DisplaysFollowWeakList ==
    BothComputed =>
        /\ CanLeadWeakList(TopPriorityUnit(agg)[1])
        /\ LET menu == TodaysMenu(agg)
           IN  /\ \A i, j \in DOMAIN menu :
                      i < j => PriorityGeq(df_log, menu[i].unit, menu[j].unit)
               /\ \A i \in DOMAIN menu : \A other \in UnitsIn(df_log) :
                      (\A k \in DOMAIN menu : menu[k].unit # other)
                          => PriorityGeq(df_log, menu[i].unit, other)

\* the displays follow the order of agg, by the display score
C24_DisplaysFollowDisplayScore ==
    BothComputed =>
        /\ \A other \in UnitsIn(PeriodFilter(df_log)) :
              DisplayPriorityGeq(PeriodFilter(df_log), TopPriorityUnit(agg)[1], other)
        /\ \A i, j \in DOMAIN TodaysMenu(agg) :
              i < j => DisplayPriorityGeq(PeriodFilter(df_log), TodaysMenu(agg)[i].unit,
                                          TodaysMenu(agg)[j].unit)

C24_DivergenceReached ==
    /\ BothComputed
    /\ weak_list # <<>>
    /\ ~CanLeadWeakList(TopPriorityUnit(agg)[1])

----------------------------------------------------------------------------
(* The names within one day *)

NamesOnce(units) ==
    \A i, j \in DOMAIN units : i # j => units[i].name # units[j].name

\* C25: within one day of the plan, past or future, no name appears more
\* than once, whether the unit is due for review and in the weak list or
\* was attempted several times on a past day.
C25_NoNameTwice ==
    PlanReturned => \A date \in PlanDates : NamesOnce(weekly_plan.entries[date].units)

\* the names of catalog units appear once
C25_NoCatalogUnitTwice ==
    PlanReturned =>
        \A date \in PlanDates :
            NamesOnce(SelectSeq(weekly_plan.entries[date].units, LAMBDA u : u.name # NaN))

\* a unit attempted twice on a past day, and a unit due and in the weak list
C25_RepeatedUnitReached ==
    /\ PlanReturned
    /\ \E i, j \in DOMAIN df_log :
          /\ i # j
          /\ df_log[i].date = df_log[j].date
          /\ df_log[i].pid = df_log[j].pid
          /\ df_log[i].pid # UnlistedProblem
          /\ df_log[i].date \in PlanDates
    /\ \E date \in FutureDates : \E k \in DOMAIN weak_list :
          HasReview(weekly_plan.entries[date], weak_list[k])

----------------------------------------------------------------------------
(* A catalog without a low tier *)

RoadmapCalled == roadmap # NotCalled

NoLowTier == \A p \in DOMAIN df_master : TierOf(p) # "low"

\* some row of the log given to the evaluator is on a catalog problem
SomeCatalogRow ==
    \E i \in DOMAIN PeriodFilter(df_log) : PeriodFilter(df_log)[i].pid \in DOMAIN df_master

StuckInBasic ==
    /\ RoadmapReturned
    /\ roadmap.phase = "Basic"
    /\ roadmap.recommendations.keys = <<"rec_review_basic", "rec_aim_stable_80">>
    /\ roadmap.recommendations.unit = <<>>

\* C26 as stated: with a catalog that has no low-tier problem (every problem
\* is mid when the difficulty column is missing), for every non-empty log
\* the phase is Basic and the recommendation is the review of the basic
\* tier, whatever was reached on the mid tier.
C26_StuckInBasicForEveryLog ==
    (RoadmapCalled /\ df_log # <<>> /\ DOMAIN df_master # {} /\ NoLowTier) => StuckInBasic

\* C26 amended: with such a catalog, for every log with at least one attempt
\* on a catalog problem the phase is Basic and the recommendation is the
\* review of the basic tier, whatever was reached on the mid tier; for a
\* log without such an attempt there is no roadmap.
C26_StuckInBasicWithCatalogRow ==
    (RoadmapCalled /\ df_log # <<>> /\ DOMAIN df_master # {} /\ NoLowTier)
    => IF SomeCatalogRow THEN StuckInBasic ELSE roadmap = NoRoadmap

\* the mid tier mastered, in a catalog without the difficulty column
C26_Witness ==
    /\ StuckInBasic
    /\ \A p \in DOMAIN df_master : df_master[p].tier = "none"
    /\ roadmap.status["mid"] = "status_completed"

C26_NoRoadmapReached ==
    RoadmapCalled /\ df_log # <<>> /\ DOMAIN df_master # {} /\ NoLowTier /\ roadmap = NoRoadmap

----------------------------------------------------------------------------
(* Coverage *)

\* the distinct problem ids of a tier in the log given to the evaluator
AttemptedOfTier(tier) ==
    {p \in DOMAIN df_master :
        TierOf(p) = tier /\ \E i \in DOMAIN PeriodFilter(df_log) : PeriodFilter(df_log)[i].pid = p}

\* C27: for every tier, solved is the number of distinct attempted problem
\* ids of the tier, total the number of catalog problems of the tier,
\* solved <= total and 0 <= coverage_percent <= 100.
C27_CoverageBounds ==
    RoadmapReturned =>
        \A tier \in Tiers :
            LET st == roadmap.stats[tier]
            IN  /\ st.solved = Cardinality(AttemptedOfTier(tier))
                /\ st.total = TierTotal(tier)
                /\ st.solved <= st.total
                /\ st.coverage.den > 0
                /\ 0 <= st.coverage.num
                /\ st.coverage.num <= 100 * st.coverage.den
                /\ st.coverage.num * st.total = 100 * st.solved * st.coverage.den

\* a tier attempted in full with a problem attempted twice, and a tier
\* attempted in part
C27_Witness ==
    /\ RoadmapReturned
    /\ \E tier \in Tiers :
          /\ roadmap.stats[tier].solved = roadmap.stats[tier].total
          /\ roadmap.stats[tier].attempts > roadmap.stats[tier].solved
    /\ \E tier \in Tiers :
          /\ 0 < roadmap.stats[tier].solved
          /\ roadmap.stats[tier].solved < roadmap.stats[tier].total

----------------------------------------------------------------------------
(* The settings sheet *)

\* load_user_settings(u) answered right after a successful
\* save_user_settings(u, s)
LoadAfterSave ==
    /\ settings_call.op = "load"
    /\ settings_call.result.kind # "error"
    /\ settings_call.after.op = "save"
    /\ settings_call.after.success
    /\ settings_call.after.user = settings_call.user

\* C28: load_user_settings(u) after a successful save_user_settings(u, s)
\* returns exactly s, for every settings value of the sidebar.
C28_RoundTrip ==
    LoadAfterSave =>
        settings_call.result = [kind |-> "settings", settings |-> settings_call.after.settings]

\* the save wrote the row of the user
OwnRowWritten ==
    \E i \in DOMAIN settings_sheet :
        settings_sheet[i] = RowOf(settings_call.user, settings_call.after.settings)

\* the round trip of a target other than 0 and a company that is no number
C28_RoundTripOfPlainValues ==
    (/\ LoadAfterSave
     /\ OwnRowWritten
     /\ settings_call.after.settings.target_rate_user # 0
     /\ NumberOf(settings_call.after.settings.company_name.text) = <<>>)
    => settings_call.result = [kind |-> "settings", settings |-> settings_call.after.settings]

C28_PlainRoundTripReached ==
    /\ LoadAfterSave
    /\ OwnRowWritten
    /\ settings_call.after.settings.exam_date # <<>>
    /\ settings_call.result = [kind |-> "settings", settings |-> settings_call.after.settings]

\* C29: a call save_user_settings(u, s) changes only the row whose User is
\* u, or appends one row for u when there is none: the rows of the other
\* users are left as they were, and the sheet holds at most one row per user.
C29_SaveTouchesOwnRowOnly ==
    [][(settings_call'.op = "save"
        /\ (settings_call' # settings_call \/ settings_sheet' # settings_sheet))
       => LET u == settings_call'.user
          IN  /\ \A i \in DOMAIN settings_sheet :
                    settings_sheet[i].user # u
                        => (i \in DOMAIN settings_sheet'
                            /\ settings_sheet'[i] = settings_sheet[i])
              /\ \A i \in DOMAIN settings_sheet' :
                    i \notin DOMAIN settings_sheet => settings_sheet'[i].user = u
              /\ \A i, j \in DOMAIN settings_sheet' :
                    settings_sheet'[i].user = settings_sheet'[j].user => i = j]_vars

\* the sheet holds at most one row per user
C29_OneRowPerUser ==
    \A i, j \in DOMAIN settings_sheet :
        settings_sheet[i].user = settings_sheet[j].user => i = j

C29_TwoUsersReached ==
    /\ Len(settings_sheet) = 2
    /\ settings_call.op = "save"
    /\ settings_call.success

----------------------------------------------------------------------------
(* The log sheet *)

SyncFailed == sync_call.op = "sync" /\ ~sync_call.success

\* C30: whenever sync_from_csv returns failure the sheet of the user holds
\* the rows it held before the call.
C30_FailureLeavesSheet ==
    SyncFailed => user_sheet = sync_call.before

\* a failure before clear() leaves the sheet, and a success leaves the
\* content of the CSV file
C30_SheetAfterSync ==
    sync_call.op = "sync" =>
        /\ sync_call.success => user_sheet = <<sync_call.csv.columns>> \o sync_call.csv.rows
        /\ ~sync_call.csv.readable => user_sheet = sync_call.before

C30_LogLostReached ==
    /\ SyncFailed
    /\ Len(sync_call.before) > 1
    /\ Len(user_sheet) <= 1

=============================================================================
